---- MODULE Spec2Model ----
(***************************************************************************)
(* MeasurementService (platform/core/src/services/MeasurementService):     *)
(* a context-partitioned store of measurements with synchronous            *)
(* publish/subscribe notification on every write.                          *)
(*                                                                         *)
(* JavaScript objects are modelled as sequences of [key, value] entries in *)
(* insertion order, which is the order Object.keys enumerates string keys  *)
(* that are not array indices.  Context names and measurement ids are such *)
(* strings, and none of them names a property inherited from               *)
(* Object.prototype.                                                       *)
(*                                                                         *)
(* The service is single threaded.  A call of addOrUpdate runs its         *)
(* subscribers synchronously; the model keeps the notifications in         *)
(* progress on a stack, one frame per _broadcastChange, and runs one       *)
(* callback per step.  While the stack is not empty only the running       *)
(* notification can move.                                                  *)
(***************************************************************************)
EXTENDS Integers, Sequences, FiniteSets, TLC

VARIABLES
  measurements,  \* this.measurements: context -> id -> measurement
  listeners,     \* this.listeners: context -> eventName -> array of {id, callback}
  events,        \* this.events, the very object EVENTS of the module
  stack,         \* the _broadcastChange calls in progress, innermost last
  nextGuid,      \* number of the next value guid() returns
  disposers,     \* the objects subscribe has returned, as their bound arguments
  unsubscribed,  \* listener ids whose disposer's unsubscribe() has been called
  nWrites,       \* number of writes addOrUpdate has made so far
  ret            \* how the latest call of the public interface ended

vars == <<measurements, listeners, events, stack, nextGuid, disposers,
          unsubscribed, nWrites, ret>>

(***************************************************************************)
(* Bounds of the model.                                                    *)
(***************************************************************************)
MaxWrites == 2          \* writes in one behaviour of Spec and SpecRegistry, nested ones included
MaxStoreWrites == 3     \* writes in one behaviour of SpecRead
MaxSubscriptions == 2   \* successful subscribe calls in one behaviour

(***************************************************************************)
(* JavaScript values.                                                      *)
(***************************************************************************)
Undefined == "undefined"
JsUndefined == [type |-> "undefined"]
JsNull == [type |-> "null"]
JsString(s) == [type |-> "string", value |-> s]

\* !v for the values an id takes: undefined and the empty string are falsy
Falsy(v) == v \in {Undefined, ""}

(***************************************************************************)
(* Objects as entry sequences.                                             *)
(***************************************************************************)
HasKey(obj, k) == \E i \in DOMAIN obj : obj[i].key = k

Get(obj, k) == obj[CHOOSE i \in DOMAIN obj : obj[i].key = k].value

\* obj[k] = v: an existing key keeps its place, a new key goes last
Put(obj, k, v) ==
  IF HasKey(obj, k)
  THEN [i \in DOMAIN obj |-> IF obj[i].key = k THEN [key |-> k, value |-> v] ELSE obj[i]]
  ELSE Append(obj, [key |-> k, value |-> v])

\* Object.keys(obj)
Keys(obj) == [i \in DOMAIN obj |-> obj[i].key]

\* Object.values(obj)
Values(obj) == [i \in DOMAIN obj |-> obj[i].value]

Range(s) == {s[i] : i \in DOMAIN s}

(***************************************************************************)
(* EVENTS, lines 4-7.  The constructor stores this very object in          *)
(* this.events, so registerEvent writes into it and addOrUpdate reads     *)
(* EVENTS.MEASUREMENT_UPDATED and EVENTS.MEASUREMENT_ADDED from it.        *)
(***************************************************************************)
EVENTS ==
  << [key |-> "MEASUREMENT_UPDATED", value |-> "event::measurement_updated"],
     [key |-> "MEASUREMENT_ADDED", value |-> "event::measurement_added"] >>

\* guid(): a fresh opaque string on every call
Guid(n) == "guid-" \o ToString(n)

\* `event::${eventName}`
EventId(eventName) == "event::" \o eventName

(***************************************************************************)
(* Inputs.                                                                 *)
(***************************************************************************)
Contexts == {"all", "a", "b"}

\* A value handed to addOrUpdate.  An object carries id, label (one of the
\* schema's keys) and foo (a key outside the schema); Undefined marks a key
\* the object does not have.
Measurement(id, label, foo) == [type |-> "object", id |-> id, label |-> label, foo |-> foo]

NotAnObject(type) == [type |-> type, id |-> Undefined, label |-> Undefined, foo |-> Undefined]

MeasurementInputs ==
  { Measurement("X", "p", Undefined),
    Measurement("X", "q", Undefined),
    Measurement(Undefined, "p", Undefined),
    Measurement("X", "p", "z"),
    NotAnObject("null"),
    NotAnObject("number") }

\* the values handed to addOrUpdate where it has subscribers
NotifiedInputs ==
  { Measurement("X", "p", Undefined),
    Measurement(Undefined, "p", Undefined),
    NotAnObject("number") }

\* the context written and subscribed to where addOrUpdate has subscribers
NotifiedContexts == {"all"}

\* the contexts written, subscribed to and listed side by side
SeveralContexts == {"all", "a"}

\* the functions given to subscribe
Callbacks == {"cbNoop", "cbThrow", "cbWrite", "cbSubscribe", "cbUnsubscribe"}

\* the names given to registerEvent
EventNames == {"custom", "MEASUREMENT_ADDED"}

\* the identifiers given to subscribe
BuiltInIds == {"event::measurement_added", "event::measurement_updated"}

EventIds ==
  BuiltInIds \cup {"event::custom", "event::MEASUREMENT_ADDED", "event::not_registered"}

\* the ids asked of getMeasurement
ReadIds == {"X", "Y", Guid(1)}

\* the readings of Math.floor(Date.now() / 1000)
Timestamps == {1}

(***************************************************************************)
(* Pure parts of the service.                                              *)
(***************************************************************************)

\* Object.keys of a measurement, as a set; a number has no own keys
OwnKeys(v) ==
  {k \in DOMAIN v \ {"type", "modifiedTimestamp"} : v[k] # Undefined}
    \cup (IF "modifiedTimestamp" \in DOMAIN v THEN {"modifiedTimestamp"} ELSE {})

MEASUREMENT_SCHEMA_KEYS ==
  { "id", "sopInstanceUID", "frameOfReferenceUID", "referenceSeriesUID", "label",
    "description", "type", "unit", "area", "points", "source", "sourceToolType" }

\* a validation that rejects a measurement with a key outside the schema
IsValidMeasurementStrict(measurementData) ==
  {key \in OwnKeys(measurementData) : key \notin MEASUREMENT_SCHEMA_KEYS} = {}

\* _isValidMeasurement: `return false` leaves the callback given to forEach,
\* not _isValidMeasurement, which goes on to `return true`
IsValidMeasurement(measurementData) ==
  LET warned == {key \in OwnKeys(measurementData) : key \notin MEASUREMENT_SCHEMA_KEYS}
      callbackValue == warned = {}   \* what the callback returns; forEach drops it
  IN  TRUE

\* _isValidEvent accepting every name
IsValidEventAlways(eventName) == TRUE

\* _isValidEvent
IsValidEvent(eventName) == eventName \in Range(Values(events))

\* newMeasurement keeping the id of the argument
NewMeasurementKeepsId(measurement, internalId, t) ==
  [type |-> "object", label |-> measurement.label, foo |-> measurement.foo,
   modifiedTimestamp |-> t, id |-> measurement.id]

\* lines 119-123: { ...measurement, modifiedTimestamp, id: internalId }
NewMeasurement(measurement, internalId, t) ==
  [type |-> "object", label |-> measurement.label, foo |-> measurement.foo,
   modifiedTimestamp |-> t, id |-> internalId]

\* lines 135-143: the key of EVENTS addOrUpdate raises
EventKey(defined) == IF defined THEN "MEASUREMENT_UPDATED" ELSE "MEASUREMENT_ADDED"

\* a store that puts newMeasurement under internalId in every context
StoreInEveryContext(ms, context, internalId, newMeasurement) ==
  [i \in DOMAIN ms |->
     [key |-> ms[i].key, value |-> Put(ms[i].value, internalId, newMeasurement)]]

\* lines 137 and 141: this.measurements[context][internalId] = newMeasurement
StoreMeasurement(ms, context, internalId, newMeasurement) ==
  Put(ms, context, Put(Get(ms, context), internalId, newMeasurement))

\* the value of this.listeners[context][eventName]
ListenerArray(items) == [isArray |-> TRUE, items |-> items]
NotAnArray == [isArray |-> FALSE, items |-> << >>]

\* the array of _broadcastChange walked from its last element to its first
BroadcastListReversed(ls, eventName, context) ==
  LET ofContext == Get(ls, context)
      items == IF HasKey(ofContext, eventName) /\ Get(ofContext, eventName).isArray
               THEN Get(ofContext, eventName).items ELSE << >>
  IN  [i \in DOMAIN items |-> items[Len(items) + 1 - i]]

\* _broadcastChange, lines 157-161: the array forEach walks.  forEach fixes
\* the range of indices before the first call, push appends beyond it and
\* _unsubscribe stores a new array, so the walk is over the array as it is
\* when the notification starts.
BroadcastList(ls, eventName, context) ==
  LET ofContext == Get(ls, context)
      hasListeners == Len(Keys(ofContext)) > 0
      hasCallbacks == HasKey(ofContext, eventName) /\ Get(ofContext, eventName).isArray
  IN  IF hasListeners /\ hasCallbacks THEN Get(ofContext, eventName).items ELSE << >>

\* a callback called without the record
CallbackArgumentUnset(ms, frame) == JsUndefined

\* line 162: the argument of listener.callback, read when the callback is called
CallbackArgument(ms, frame) == Get(Get(ms, frame.context), frame.measurementId)

\* a subscribe that leaves the table as it is
AddListenerDropped(ls, eventName, context, listener) == ls

\* subscribe, lines 180-189
AddListener(ls, eventName, context, listener) ==
  LET ls1 == IF HasKey(ls, context) THEN ls ELSE Put(ls, context, << >>)
      ofContext == Get(ls1, context)
  IN  IF HasKey(ofContext, eventName) /\ Get(ofContext, eventName).isArray
      THEN Put(ls1, context,
               Put(ofContext, eventName,
                   ListenerArray(Append(Get(ofContext, eventName).items, listener))))
      ELSE Put(ls1, context, Put(ofContext, eventName, ListenerArray(<<listener>>)))

\* a filter that keeps every listener
FilterKeepsAll(items, listenerId) == items

\* listenersOfContext.filter(({ id }) => id !== listenerId)
Filter(items, listenerId) ==
  LET F[i \in 0..Len(items)] ==
        IF i = 0 THEN << >>
        ELSE IF items[i].id # listenerId THEN Append(F[i - 1], items[i]) ELSE F[i - 1]
  IN  F[Len(items)]

\* an _unsubscribe that empties the list of the event
RemoveEveryListener(ls, eventName, listenerId, context) ==
  IF ~HasKey(ls, context) THEN ls
  ELSE Put(ls, context, Put(Get(ls, context), eventName, ListenerArray(<< >>)))

\* _unsubscribe
RemoveListener(ls, eventName, listenerId, context) ==
  IF ~HasKey(ls, context) THEN ls
  ELSE LET ofContext == Get(ls, context)
       IN  IF HasKey(ofContext, eventName) /\ Get(ofContext, eventName).isArray
           THEN Put(ls, context,
                    Put(ofContext, eventName,
                        ListenerArray(Filter(Get(ofContext, eventName).items, listenerId))))
           ELSE Put(ls, context, Put(ofContext, eventName, NotAnArray))

(***************************************************************************)
(* How a call ends: it returns a value or throws.                          *)
(***************************************************************************)
Returns(value) == [status |-> "returned", value |-> value]
Throws(error) == [status |-> "threw", value |-> JsString(error)]
Running == [status |-> "running", value |-> JsUndefined]

\* a call of the public interface and its arguments
Call(op, args) == [op |-> op, args |-> args]

\* getMeasurement(id, context); context Undefined when the caller gives none
GetMeasurement(id, context) ==
  IF ~Falsy(context)
  THEN \* line 70
       IF ~HasKey(measurements, context) THEN Throws("TypeError")
       ELSE IF HasKey(Get(measurements, context), id)
            THEN Returns(Get(Get(measurements, context), id))
            ELSE Returns(JsUndefined)
  ELSE \* lines 73-83; Object.keys(undefined) throws a TypeError
       LET contexts == Keys(measurements)
           Scan[i \in 0..Len(contexts)] ==
             IF i = 0 THEN Returns(JsNull)
             ELSE IF Scan[i - 1].status = "threw" THEN Scan[i - 1]
             ELSE LET contextMeasurements == Get(measurements, contexts[i])
                  IN  IF ~HasKey(contextMeasurements, id)
                      THEN Throws("TypeError")
                      ELSE IF Cardinality(OwnKeys(Get(contextMeasurements, id))) > 0
                           THEN Returns(Get(contextMeasurements, id))
                           ELSE Scan[i - 1]
       IN  Scan[Len(contexts)]

\* an object a call makes and returns, as its entries
JsObject(entries) == [type |-> "mapping", entries |-> entries]

\* an array as a value a call returns
JsArray(items) == [type |-> "array", items |-> items]

\* an array of the bare records
ArrayOfValues(obj) == [i \in DOMAIN obj |-> obj[i].value]

\* _arrayOfObjects: Object.entries(obj).map(e => ({ [e[0]]: e[1] }))
ArrayOfObjects(obj) ==
  [i \in DOMAIN obj |-> JsObject(<< [key |-> obj[i].key, value |-> obj[i].value] >>)]

\* getMeasurements giving an empty array for a context the store lacks
GetMeasurementsLenient(context) ==
  LET ofContext == IF context = Undefined THEN "all" ELSE context
  IN  IF ~HasKey(measurements, ofContext) THEN Returns(JsArray(<< >>))
      ELSE Returns(JsArray(ArrayOfObjects(Get(measurements, ofContext))))

\* getMeasurements(context = 'all'); Object.entries(undefined) throws a
\* TypeError
GetMeasurements(context) ==
  LET ofContext == IF context = Undefined THEN "all" ELSE context
  IN  IF ~HasKey(measurements, ofContext) THEN Throws("TypeError")
      ELSE Returns(JsArray(ArrayOfObjects(Get(measurements, ofContext))))

(***************************************************************************)
(* addOrUpdate.                                                            *)
(***************************************************************************)

\* A frame: one _broadcastChange in progress.  list is the array forEach
\* walks and done the number of its callbacks called so far.  The other
\* fields keep the history of the write that raised the event: the record
\* it wrote (written), whether the id was stored before (defined), the
\* record written last under its id (latest), the calls made (calls), and
\* the guid count (guidBefore) and the unsubscribe() calls made
\* (unsubscribedBefore) when the write started.
Frame(context, measurementId, eventKey, eventName, list, written, defined) ==
  [context |-> context, measurementId |-> measurementId, eventKey |-> eventKey,
   eventName |-> eventName, list |-> list, done |-> 0, written |-> written,
   defined |-> defined, latest |-> written, calls |-> << >>,
   guidBefore |-> nextGuid, unsubscribedBefore |-> unsubscribed]

\* the frames of stk once newMeasurement is written under internalId
Noted(stk, context, internalId, newMeasurement) ==
  [i \in DOMAIN stk |->
     IF stk[i].context = context /\ stk[i].measurementId = internalId
     THEN [stk[i] EXCEPT !.latest = newMeasurement]
     ELSE stk[i]]

\* lines 113-143, up to the first callback: stk is the stack the call is made on
Write(measurement, context, t, stk) ==
  LET id == measurement.id
      generated == Falsy(id)
      internalId == IF generated THEN Guid(nextGuid) ELSE id
      newMeasurement == NewMeasurement(measurement, internalId, t)
      ms == IF HasKey(measurements, context) THEN measurements
            ELSE Put(measurements, context, << >>)
      ls == IF HasKey(listeners, context) THEN listeners
            ELSE Put(listeners, context, << >>)
      defined == HasKey(Get(ms, context), internalId)
      eventKey == EventKey(defined)
      eventName == Get(events, eventKey)
  IN  /\ measurements' = StoreMeasurement(ms, context, internalId, newMeasurement)
      /\ listeners' = ls
      /\ nextGuid' = IF generated THEN nextGuid + 1 ELSE nextGuid
      /\ nWrites' = nWrites + 1
      /\ stack' = Append(Noted(stk, context, internalId, newMeasurement),
                         Frame(context, internalId, eventKey, eventName,
                               BroadcastList(ls, eventName, context),
                               newMeasurement, defined))

\* addOrUpdate(measurement, context) called by the application
AddOrUpdate(measurement, context) ==
  LET call == Call("addOrUpdate", [measurement |-> measurement, context |-> context])
  IN  /\ stack = << >>
      /\ IF measurement.type \in {"null", "undefined"}
         THEN \* line 104: destructuring null or undefined throws a TypeError
              /\ ret' = [call |-> call, outcome |-> Throws("TypeError")]
              /\ UNCHANGED <<measurements, listeners, nextGuid, nWrites, stack>>
         ELSE IF ~IsValidMeasurement(measurement)
         THEN \* lines 106-111
              /\ ret' = [call |-> call, outcome |-> Returns(JsUndefined)]
              /\ UNCHANGED <<measurements, listeners, nextGuid, nWrites, stack>>
         ELSE /\ \E t \in Timestamps : Write(measurement, context, t, << >>)
              /\ ret' = [call |-> call, outcome |-> Running]
      /\ UNCHANGED <<events, disposers, unsubscribed>>

(***************************************************************************)
(* The notification in progress.                                           *)
(***************************************************************************)
Top == stack[Len(stack)]

\* the listener forEach calls next
NextListener == Top.list[Top.done + 1]

\* the stack once the next callback of the top frame has been called
Called ==
  LET frame == Top
      call == [id |-> NextListener.id, callback |-> NextListener.callback,
               argument |-> CallbackArgument(measurements, frame),
               latest |-> frame.latest]
  IN  [stack EXCEPT ![Len(stack)] =
         [frame EXCEPT !.done = @ + 1, !.calls = Append(@, call)]]

Calling(callback) ==
  /\ stack # << >>
  /\ Top.done < Len(Top.list)
  /\ NextListener.callback = callback

\* a callback that returns at once
CallNoop ==
  /\ Calling("cbNoop")
  /\ stack' = Called
  /\ UNCHANGED <<measurements, listeners, events, nextGuid, disposers,
                 unsubscribed, nWrites, ret>>

\* a throwing callback whose exception forEach would swallow
CallThrowCaught ==
  /\ Calling("cbThrow")
  /\ stack' = Called
  /\ UNCHANGED <<measurements, listeners, events, nextGuid, disposers,
                 unsubscribed, nWrites, ret>>

\* a callback that throws: nothing catches it, so every call in progress ends
CallThrow ==
  /\ Calling("cbThrow")
  /\ stack' = << >>
  /\ ret' = [ret EXCEPT !.outcome = Throws("Error")]
  /\ UNCHANGED <<measurements, listeners, events, nextGuid, disposers,
                 unsubscribed, nWrites>>

\* m => service.addOrUpdate({ id: m.id, label: 'r' }, context), for the
\* context the callback is called for
CallWrite ==
  /\ Calling("cbWrite")
  /\ \E t \in Timestamps :
       Write(Measurement(CallbackArgument(measurements, Top).id, "r", Undefined),
             Top.context, t, Called)
  /\ UNCHANGED <<events, disposers, unsubscribed, ret>>

\* addOrUpdate returning nothing once its callbacks have returned
ReturnUndefined ==
  /\ stack # << >>
  /\ Top.done = Len(Top.list)
  /\ stack' = SubSeq(stack, 1, Len(stack) - 1)
  /\ ret' = IF Len(stack) = 1
            THEN [ret EXCEPT !.outcome = Returns(JsUndefined)]
            ELSE ret
  /\ UNCHANGED <<measurements, listeners, events, nextGuid, disposers,
                 unsubscribed, nWrites>>

\* forEach has called every callback: _broadcastChange returns and
\* addOrUpdate returns newMeasurement.id
Return ==
  /\ stack # << >>
  /\ Top.done = Len(Top.list)
  /\ stack' = SubSeq(stack, 1, Len(stack) - 1)
  /\ ret' = IF Len(stack) = 1
            THEN [ret EXCEPT !.outcome = Returns(JsString(Top.written.id))]
            ELSE ret
  /\ UNCHANGED <<measurements, listeners, events, nextGuid, disposers,
                 unsubscribed, nWrites>>

(***************************************************************************)
(* subscribe, the disposer's unsubscribe, registerEvent, getMeasurement.   *)
(***************************************************************************)

\* The object subscribe returns, as the arguments its unsubscribe is bound
\* to; created is the number of the guid() call that made listenerId.
Disposer(eventName, listenerId, context, created) ==
  [eventName |-> eventName, listenerId |-> listenerId, context |-> context,
   created |-> created]

\* lines 177-193, for a valid eventName
Listen(eventName, callback, context) ==
  LET listenerId == Guid(nextGuid)
  IN  /\ Cardinality(disposers) < MaxSubscriptions
      /\ nextGuid' = nextGuid + 1
      /\ listeners' = AddListener(listeners, eventName, context,
                                  [id |-> listenerId, callback |-> callback])
      /\ disposers' = disposers \cup {Disposer(eventName, listenerId, context, nextGuid)}

\* subscribe(eventName, callback, context) called by the application
Subscribe(eventName, callback, context) ==
  LET call == Call("subscribe", [eventName |-> eventName, callback |-> callback,
                                 context |-> context])
  IN  /\ stack = << >>
      /\ IF IsValidEvent(eventName)
         THEN /\ Listen(eventName, callback, context)
              /\ ret' = [call |-> call,
                         outcome |-> Returns([type |-> "disposer",
                                              listenerId |-> Guid(nextGuid)])]
         ELSE \* line 195
              /\ ret' = [call |-> call, outcome |-> Throws("Error")]
              /\ UNCHANGED <<listeners, nextGuid, disposers>>
      /\ UNCHANGED <<measurements, events, stack, unsubscribed, nWrites>>

\* unsubscribe() of a disposer, called by the application
Unsubscribe(disposer) ==
  /\ stack = << >>
  /\ listeners' = RemoveListener(listeners, disposer.eventName, disposer.listenerId,
                                 disposer.context)
  /\ unsubscribed' = unsubscribed \cup {disposer.listenerId}
  /\ ret' = [call |-> Call("unsubscribe", disposer), outcome |-> Returns(JsUndefined)]
  /\ UNCHANGED <<measurements, events, stack, nextGuid, disposers, nWrites>>

\* () => service.subscribe(eventName, cbNoop, context), for the event and the
\* context the callback is called for
CallSubscribe ==
  /\ Calling("cbSubscribe")
  /\ IF IsValidEvent(Top.eventName)
     THEN /\ Listen(Top.eventName, "cbNoop", Top.context)
          /\ stack' = Called
          /\ UNCHANGED ret
     ELSE /\ stack' = << >>
          /\ ret' = [ret EXCEPT !.outcome = Throws("Error")]
          /\ UNCHANGED <<listeners, nextGuid, disposers>>
  /\ UNCHANGED <<measurements, events, unsubscribed, nWrites>>

\* () => disposer.unsubscribe(), for a disposer the callback holds
CallUnsubscribe ==
  /\ Calling("cbUnsubscribe")
  /\ \E disposer \in disposers :
       /\ listeners' = RemoveListener(listeners, disposer.eventName,
                                      disposer.listenerId, disposer.context)
       /\ unsubscribed' = unsubscribed \cup {disposer.listenerId}
  /\ stack' = Called
  /\ UNCHANGED <<measurements, events, nextGuid, disposers, nWrites, ret>>

\* registerEvent(eventName)
RegisterEvent(eventName) ==
  /\ stack = << >>
  /\ events' = Put(events, eventName, EventId(eventName))
  /\ ret' = [call |-> Call("registerEvent", [eventName |-> eventName]),
             outcome |-> Returns(JsUndefined)]
  /\ UNCHANGED <<measurements, listeners, stack, nextGuid, disposers, unsubscribed,
                 nWrites>>

\* getMeasurement(id, context) called by the application
ReadMeasurement(id, context) ==
  /\ stack = << >>
  /\ ret' = [call |-> Call("getMeasurement", [id |-> id, context |-> context]),
             outcome |-> GetMeasurement(id, context)]
  /\ UNCHANGED <<measurements, listeners, events, stack, nextGuid, disposers,
                 unsubscribed, nWrites>>

\* getMeasurements(context) called by the application
ReadMeasurements(context) ==
  /\ stack = << >>
  /\ ret' = [call |-> Call("getMeasurements", [context |-> context]),
             outcome |-> GetMeasurements(context)]
  /\ UNCHANGED <<measurements, listeners, events, stack, nextGuid, disposers,
                 unsubscribed, nWrites>>

Init ==
  /\ measurements = << >>
  /\ listeners = << >>
  /\ events = EVENTS
  /\ stack = << >>
  /\ nextGuid = 1
  /\ disposers = {}
  /\ unsubscribed = {}
  /\ nWrites = 0
  /\ ret = [call |-> Call("constructor", << >>), outcome |-> Returns(JsUndefined)]

(***************************************************************************)
(* The service with its subscribers in one context: writes, notification,  *)
(* subscribe and unsubscribe, from the application and from callbacks.     *)
(***************************************************************************)
Next ==
  \/ \E measurement \in NotifiedInputs, context \in NotifiedContexts :
       nWrites < MaxWrites /\ AddOrUpdate(measurement, context)
  \/ CallNoop
  \/ CallThrow
  \/ nWrites < MaxWrites /\ CallWrite
  \/ CallSubscribe
  \/ CallUnsubscribe
  \/ Return
  \/ \E eventName \in BuiltInIds \cup {"event::not_registered"},
        callback \in Callbacks, context \in NotifiedContexts :
       Subscribe(eventName, callback, context)
  \/ \E disposer \in disposers : Unsubscribe(disposer)

Spec == Init /\ [][Next]_vars

(***************************************************************************)
(* The event registry: registerEvent, subscribe and the events addOrUpdate *)
(* raises.                                                                 *)
(***************************************************************************)
NextRegistry ==
  \/ \E eventName \in EventNames : RegisterEvent(eventName)
  \/ \E eventName \in EventIds : Subscribe(eventName, "cbNoop", "all")
  \/ \E disposer \in disposers : Unsubscribe(disposer)
  \/ \E measurement \in {Measurement("X", "p", Undefined),
                         Measurement(Undefined, "p", Undefined)} :
       nWrites < MaxWrites /\ AddOrUpdate(measurement, "all")
  \/ CallNoop
  \/ Return

SpecRegistry == Init /\ [][NextRegistry]_vars

(***************************************************************************)
(* The record store: writes and getMeasurement.                            *)
(***************************************************************************)
NextRead ==
  \/ \E measurement \in MeasurementInputs, context \in Contexts :
       nWrites < MaxStoreWrites /\ AddOrUpdate(measurement, context)
  \/ Return
  \/ \E id \in ReadIds, context \in Contexts \cup {Undefined} :
       ReadMeasurement(id, context)

SpecRead == Init /\ [][NextRead]_vars

(***************************************************************************)
(* Several contexts: writes, subscribers and getMeasurements.              *)
(***************************************************************************)
NextContexts ==
  \/ \E measurement \in {Measurement("X", "p", Undefined), Measurement("X", "q", Undefined),
                         Measurement(Undefined, "p", Undefined)},
        context \in SeveralContexts :
       nWrites < MaxWrites /\ AddOrUpdate(measurement, context)
  \/ CallNoop
  \/ Return
  \/ \E eventName \in BuiltInIds, context \in SeveralContexts :
       Subscribe(eventName, "cbNoop", context)
  \/ \E disposer \in disposers : Unsubscribe(disposer)
  \/ \E context \in SeveralContexts \cup {Undefined} : ReadMeasurements(context)

SpecContexts == Init /\ [][NextContexts]_vars

(***************************************************************************)
(* Writes a subscriber aborts, with a registry the application extends.    *)
(***************************************************************************)
NextAbort ==
  \/ nWrites < MaxWrites /\ AddOrUpdate(Measurement("X", "p", Undefined), "all")
  \/ CallNoop
  \/ CallThrow
  \/ Return
  \/ \E eventName \in BuiltInIds, callback \in {"cbThrow", "cbNoop"} :
       Subscribe(eventName, callback, "all")
  \/ RegisterEvent("MEASUREMENT_UPDATED")

SpecAbort == Init /\ [][NextAbort]_vars

(***************************************************************************)
(* Properties.                                                             *)
(***************************************************************************)

\* the callbacks subscribed to eventName in context, in the order of the list
Subscribed(context, eventName) ==
  IF HasKey(listeners, context) /\ HasKey(Get(listeners, context), eventName)
  THEN Get(Get(listeners, context), eventName).items
  ELSE << >>

\* the record stored under id in context
Stored(context, id) == Get(Get(measurements, context), id)

IsStored(context, id) ==
  HasKey(measurements, context) /\ HasKey(Get(measurements, context), id)

\* C1: for every context and id, the first addOrUpdate of the id in the
\* context stores the record and raises event::measurement_added, and every
\* later one stores the new record in its place and raises
\* event::measurement_updated.
C1_FirstAddedLaterUpdated ==
  \A i \in DOMAIN stack :
    LET frame == stack[i]
    IN  /\ frame.eventName = IF frame.defined THEN "event::measurement_updated"
                             ELSE "event::measurement_added"
        /\ IsStored(frame.context, frame.measurementId)
        /\ Stored(frame.context, frame.measurementId) = frame.latest

\* C2: a callback subscribed to event::measurement_added in a context is
\* called exactly once, with the record written, before an addOrUpdate of an
\* id not yet stored in that context returns.
C2_AddedSubscriberCalledOnce ==
  \A i \in DOMAIN stack :
    LET frame == stack[i]
        subscribed == Subscribed(frame.context, "event::measurement_added")
    IN  (~frame.defined /\ frame.done = Len(frame.list)) =>
          \A j \in DOMAIN subscribed :
            /\ Cardinality({k \in DOMAIN frame.calls :
                              frame.calls[k].id = subscribed[j].id}) = 1
            /\ \A k \in DOMAIN frame.calls :
                 frame.calls[k].id = subscribed[j].id =>
                   frame.calls[k].argument = frame.written

\* C5: subscribe with an identifier that is no value of the registry throws
\* and leaves the listeners as they are; it returns no disposer.
C5_UnregisteredSubscribeFails ==
  [][(/\ ret'.call.op = "subscribe"
      /\ ret'.call.args.eventName \notin Range(Values(events)))
       => (/\ ret'.outcome.status = "threw"
           /\ listeners' = listeners
           /\ disposers' = disposers)]_vars

C5_Witness ==
  /\ ret.call.op = "subscribe"
  /\ ret.outcome.status = "threw"
  /\ ret.call.args.eventName = "event::measurement_added"
  /\ Subscribed("all", "event::measurement_added") # << >>

\* C6: an identifier subscribe accepts is accepted ever after, whatever
\* names registerEvent is called with.
C6_ValidStaysValid ==
  [][\A eventName \in EventIds :
       eventName \in Range(Values(events)) => eventName \in Range(Values(events'))]_vars

\* the contexts of the store that hold a record under id
Holders(id) == {c \in Range(Keys(measurements)) : HasKey(Get(measurements, c), id)}

\* C7: getMeasurement(id) without a context returns null when no context of
\* the store holds a record under id.
C7_NullWhenNoMatch ==
  (/\ ret.call.op = "getMeasurement"
   /\ Falsy(ret.call.args.context)
   /\ Holders(ret.call.args.id) = {})
    => ret.outcome = Returns(JsNull)

\* C8: when several contexts hold a record under id, getMeasurement(id)
\* without a context returns the record of the one written first latest.
C8_LastContextWins ==
  (/\ ret.call.op = "getMeasurement"
   /\ Falsy(ret.call.args.context)
   /\ Cardinality(Holders(ret.call.args.id)) >= 2)
    => LET contexts == Keys(measurements)
           last == CHOOSE i \in DOMAIN contexts :
                     /\ contexts[i] \in Holders(ret.call.args.id)
                     /\ \A j \in DOMAIN contexts :
                          contexts[j] \in Holders(ret.call.args.id) => j <= i
       IN  ret.outcome = Returns(Stored(contexts[last], ret.call.args.id))

\* C9: addOrUpdate of a value that is no object returns without throwing,
\* leaves the store and the listeners as they are and calls no subscriber.
C9_NonObjectIgnored ==
  [][(/\ ret'.call.op = "addOrUpdate"
      /\ ret'.call.args.measurement.type # "object")
       => (/\ ret'.outcome.status = "returned"
           /\ measurements' = measurements
           /\ listeners' = listeners
           /\ stack' = << >>)]_vars

\* C10: every record of the store has for id the key it is stored under.
C10_IdIsKey ==
  \A i \in DOMAIN measurements :
    \A j \in DOMAIN measurements[i].value :
      measurements[i].value[j].value.id = measurements[i].value[j].key

C10_Witness ==
  /\ IsStored("all", "X")
  /\ \E n \in 1..nextGuid : IsStored("all", Guid(n))

\* the members of a set of disposers, oldest first
OldestFirst(S) ==
  [k \in 1..Cardinality(S) |->
     CHOOSE d \in S : Cardinality({e \in S : e.created < d.created}) = k - 1]

\* the subscriptions to the event of frame in its context that were made and
\* not yet unsubscribed when its write started, oldest first
SubscribedBefore(frame) ==
  OldestFirst({d \in disposers :
                 /\ d.context = frame.context
                 /\ d.eventName = frame.eventName
                 /\ d.created < frame.guidBefore
                 /\ d.listenerId \notin frame.unsubscribedBefore})

\* forEach walks the subscriptions of frame in the order they were made
InSubscriptionOrder(frame) ==
  /\ Len(frame.list) = Len(SubscribedBefore(frame))
  /\ \A k \in DOMAIN frame.list : frame.list[k].id = SubscribedBefore(frame)[k].listenerId
  /\ Len(frame.calls) = frame.done
  /\ frame.done <= Len(frame.list)
  /\ \A k \in DOMAIN frame.calls :
       /\ frame.calls[k].id = frame.list[k].id
       /\ frame.calls[k].callback = frame.list[k].callback

\* C3 as stated: for every write, the callbacks subscribed to its event in
\* its context are called in the order of their subscriptions, each with the
\* record this write has written, also when callbacks write.
C3_EachGetsTheRecordWritten ==
  \A i \in DOMAIN stack :
    /\ InSubscriptionOrder(stack[i])
    /\ \A k \in DOMAIN stack[i].calls : stack[i].calls[k].argument = stack[i].written

\* C3 amended: for every write, the callbacks subscribed to its event in its
\* context when it starts are called in the order of their subscriptions
\* (until one throws, which ends the call), each with the record stored
\* under the written id at the time of the call: the record written last
\* under that id, by this write or by a callback called before.
C3_EachGetsTheRecordStored ==
  \A i \in DOMAIN stack :
    /\ InSubscriptionOrder(stack[i])
    /\ \A k \in DOMAIN stack[i].calls :
         stack[i].calls[k].argument = stack[i].calls[k].latest

C3_Witness ==
  \E i \in DOMAIN stack :
    /\ Len(stack[i].calls) >= 2
    /\ stack[i].calls[1].argument = stack[i].written
    /\ stack[i].calls[2].argument # stack[i].written

\* C4: a write that starts after unsubscribe() of a disposer calls nothing
\* through the subscription the disposer was returned for.
C4_NoCallAfterUnsubscribe ==
  \A i \in DOMAIN stack :
    \A k \in DOMAIN stack[i].calls :
      stack[i].calls[k].id \notin stack[i].unsubscribedBefore

C4_Witness ==
  \E i \in DOMAIN stack :
    /\ stack[i].calls # << >>
    /\ \E d \in disposers :
         /\ d.listenerId \in stack[i].unsubscribedBefore
         /\ d.eventName = stack[i].eventName
         /\ d.context = stack[i].context

\* the records addOrUpdate may make of measurement under id: its keys, the id
\* and a reading of the clock
Extended(measurement, id) ==
  {[type |-> "object", label |-> measurement.label, foo |-> measurement.foo,
    modifiedTimestamp |-> t, id |-> id] : t \in Timestamps}

\* the latest call is an addOrUpdate of a record without an id
GeneratedIdCall ==
  /\ ret.call.op = "addOrUpdate"
  /\ ret.call.args.measurement.type = "object"
  /\ Falsy(ret.call.args.measurement.id)

C13_AbsentContextIsAFault ==
  [][(ret'.call.op = "getMeasurements")
       => LET context == IF ret'.call.args.context = Undefined THEN "all"
                         ELSE ret'.call.args.context
          IN  /\ ~HasKey(measurements, context) =>
                   /\ ret'.outcome = Throws("TypeError")
                   /\ ret'.outcome # Returns(JsArray(<< >>))
              /\ HasKey(measurements, context) =>
                   /\ ret'.outcome.status = "returned"
                   /\ ret'.outcome.value.type = "array"
                   /\ Get(measurements, context) = << >> => ret'.outcome.value.items = << >>
              /\ ArrayOfObjects(<< >>) = << >>]_vars

C13_Witness ==
  /\ ret.call.op = "getMeasurements"
  /\ ret.outcome = Throws("TypeError")
  /\ ret.call.args.context = "a"
  /\ Subscribed("a", "event::measurement_added") # << >>
  /\ HasKey(measurements, "all")

\* C14: whenever a callback is about to be called for a write of an id in a
\* context, a record with that id is stored in the context, and
\* getMeasurement of the id in the context returns the very record the
\* callback is given; every callback called so far was given a record with
\* the id written.
C14_NotifiedRecordIsReadable ==
  /\ \A i \in DOMAIN stack : IsStored(stack[i].context, stack[i].measurementId)
  /\ (stack # << >> /\ Top.done < Len(Top.list)) =>
       /\ GetMeasurement(Top.measurementId, Top.context)
            = Returns(CallbackArgument(measurements, Top))
       /\ CallbackArgument(measurements, Top).id = Top.measurementId
  /\ \A i \in DOMAIN stack :
       \A k \in DOMAIN stack[i].calls :
         /\ stack[i].calls[k].argument.type = "object"
         /\ stack[i].calls[k].argument.id = stack[i].measurementId

C14_Witness ==
  /\ Len(stack) = 2
  /\ Top.done < Len(Top.list)
  /\ stack[1].calls # << >>
  /\ ~stack[1].defined

\* C15: when a callback throws during the notification of a write, the
\* notification ends there, so the callbacks after it in the list are not
\* called for that write (a callback is called only for a write in progress,
\* and a new write starts with no callback called), and addOrUpdate ends
\* with the exception instead of returning.
C15_ThrowAbortsNotification ==
  [][/\ (stack # << >> /\ Top.done < Len(Top.list) /\ NextListener.callback = "cbThrow")
          => /\ stack' = << >>
             /\ ret'.call = ret.call
             /\ ret'.call.op = "addOrUpdate"
             /\ ret'.outcome = Throws("Error")
     /\ (stack = << >> /\ stack' # << >>)
          => /\ Len(stack') = 1
             /\ stack'[1].calls = << >>
             /\ nWrites' = nWrites + 1]_vars

C15_Witness ==
  /\ ret.call.op = "addOrUpdate"
  /\ ret.outcome = Throws("Error")
  /\ stack = << >>
  /\ nWrites = 1
  /\ Len(Subscribed("all", "event::measurement_added")) = 2
  /\ Subscribed("all", "event::measurement_added")[1].callback = "cbThrow"
  /\ Subscribed("all", "event::measurement_added")[2].callback = "cbNoop"

ListIn(ls, context, eventName) ==
  IF HasKey(ls, context) /\ HasKey(Get(ls, context), eventName)
  THEN Get(Get(ls, context), eventName).items
  ELSE << >>

C18_ContextsIsolated ==
  [][/\ (nWrites' = nWrites + 1) =>
          \A context \in SeveralContexts :
            context # stack'[Len(stack')].context
              => /\ HasKey(measurements', context) = HasKey(measurements, context)
                 /\ HasKey(measurements, context)
                      => Get(measurements', context) = Get(measurements, context)
     /\ \A i \in DOMAIN stack' :
          /\ \A k \in DOMAIN stack'[i].list :
               \E d \in disposers' : /\ d.listenerId = stack'[i].list[k].id
                                     /\ d.context = stack'[i].context
          /\ \A k \in DOMAIN stack'[i].calls :
               \E d \in disposers' : /\ d.listenerId = stack'[i].calls[k].id
                                     /\ d.context = stack'[i].context
          /\ stack'[i].context # "all"
               => \A k \in DOMAIN stack'[i].calls :
                    \A j \in DOMAIN ListIn(listeners', "all", stack'[i].eventName) :
                      ListIn(listeners', "all", stack'[i].eventName)[j].id
                        # stack'[i].calls[k].id]_vars

\* the same id holds different records in two contexts, and a write to "a"
\* has called its subscriber and none of "all"
C18_Witness ==
  /\ IsStored("all", "X") /\ IsStored("a", "X")
  /\ Stored("all", "X") # Stored("a", "X")
  /\ stack # << >>
  /\ Top.context = "a"
  /\ Len(Top.calls) = 1
  /\ Top.done = Len(Top.list)
  /\ Subscribed("all", Top.eventName) # << >>

\* the ids of the subscriptions to the event of frame in its context that
\* were made and not yet unsubscribed when its notification began
SubscribedAtStart(frame) ==
  {d.listenerId : d \in {e \in disposers :
                           /\ e.context = frame.context
                           /\ e.eventName = frame.eventName
                           /\ e.created < frame.guidBefore
                           /\ e.listenerId \notin frame.unsubscribedBefore}}

\* the ids of the subscriptions called so far for frame
CalledIds(frame) == {frame.calls[k].id : k \in DOMAIN frame.calls}

\* C19 as stated: the callbacks called for a write are exactly the
\* subscriptions of its context and event when its notification began, those
\* unsubscribed meanwhile included and those subscribed meanwhile not: none
\* else is called, and when the write ends each of them has been called.
C19_ExactlyTheSubscribedAtStart ==
  [][\A i \in DOMAIN stack :
       /\ CalledIds(stack[i]) \subseteq SubscribedAtStart(stack[i])
       /\ i > Len(stack')
            => (IF i = Len(stack) /\ Top.done < Len(Top.list)
                THEN Top.done + 1 ELSE stack[i].done)
                 = Cardinality(SubscribedAtStart(stack[i]))]_vars

\* C19 amended: the callbacks called for a write are subscriptions of its
\* context and event when its notification began, each called once, those
\* unsubscribed meanwhile included and those subscribed meanwhile not; when
\* forEach has gone through the list each of them has been called, and a
\* write ends before that only when a callback throws.
C19_OnlyTheSubscribedAtStart ==
  [][\A i \in DOMAIN stack :
       /\ CalledIds(stack[i]) \subseteq SubscribedAtStart(stack[i])
       /\ Cardinality(CalledIds(stack[i])) = Len(stack[i].calls)
       /\ stack[i].done = Len(stack[i].list)
            => CalledIds(stack[i]) = SubscribedAtStart(stack[i])
       /\ i > Len(stack')
            => \/ stack[i].done = Len(stack[i].list)
               \/ ret'.outcome.status = "threw"]_vars

\* a subscription unsubscribed by a callback of a notification is called by
\* that notification afterwards
C19_Witness ==
  \E i \in DOMAIN stack :
    /\ Len(stack[i].calls) = 2
    /\ stack[i].calls[1].callback = "cbUnsubscribe"
    /\ stack[i].calls[2].id \in unsubscribed
    /\ stack[i].calls[2].id \notin stack[i].unsubscribedBefore

\* C20: a write a throwing callback aborts is not rolled back: when the
\* callback throws, the record of every write in progress is stored under
\* its id, and when the application repeats an aborted write of a record
\* with an id, the id counts as stored and the write raises
\* event::measurement_updated, not event::measurement_added.
C20_AbortedWriteStaysWritten ==
  [][/\ (stack # << >> /\ Top.done < Len(Top.list) /\ NextListener.callback = "cbThrow")
          => /\ measurements' = measurements
             /\ \A i \in DOMAIN stack :
                  /\ IsStored(stack[i].context, stack[i].measurementId)
                  /\ Stored(stack[i].context, stack[i].measurementId) = stack[i].latest
     /\ (/\ ret.call.op = "addOrUpdate"
         /\ ret.outcome.status = "threw"
         /\ ~Falsy(ret.call.args.measurement.id)
         /\ ret'.call = ret.call
         /\ nWrites' = nWrites + 1)
          => /\ IsStored(ret.call.args.context, ret.call.args.measurement.id)
             /\ stack'[1].measurementId = ret.call.args.measurement.id
             /\ stack'[1].defined
             /\ stack'[1].eventName # "event::measurement_added"
             /\ stack'[1].eventName = "event::measurement_updated"]_vars

====
